---- MODULE Spec2Model ----
(***************************************************************************)
(* A model of EnhancedTwitterMediaAnalyzer (src/unnamed/part_001): the     *)
(* two media caches, the duplicate checks of extractVideoData and          *)
(* extractImageData, checkCacheSize, the start/stop commands, the timer    *)
(* driven loop of infiniteScroll/scrollStep and importJsonData.            *)
(*                                                                         *)
(* JavaScript strings are sequences of character codes, so that hashing,   *)
(* splitting and substring tests are computed as the code computes them.   *)
(* One action is one browser task: an event handler or a timer callback    *)
(* together with the promise continuations it releases.                    *)
(***************************************************************************)
EXTENDS Integers, Sequences, FiniteSets, TLC

VARIABLES
  config,            \* this.config: the fields the loop and the caches read
  onTwitter,         \* isOnTwitter(): fixed by the hosting page
  isAnalyzing,       \* this.isAnalyzing
  isProcessing,      \* this.state.isProcessing
  isScrolling,       \* this.state.isScrolling
  scrollCount,       \* this.state.scrollCount
  stabilityCounter,  \* this.state.stabilityCounter
  lastMediaDiscoveryScroll, \* this.state.lastMediaDiscoveryScroll
  videoCache,        \* this.state.videoCache: a Map, in insertion order
  imageCache,        \* this.state.imageCache: a Map, in insertion order
  loops,             \* the scroll loops whose setTimeout is pending, each
                     \* with the closure variables of its infiniteScroll call
  dateNow,           \* Date.now()
  last,              \* what the most recent task did (history, read by no action)
  events             \* the number of commands and faults so far

vars == <<config, onTwitter, isAnalyzing, isProcessing, isScrolling, scrollCount,
          stabilityCounter, lastMediaDiscoveryScroll, videoCache, imageCache,
          loops, dateNow, last, events>>

-----------------------------------------------------------------------------
(* Bounds of the model *)

\* largest value of Date.now() (the clock stops there)
MaxNow == 1
\* largest number of outside events of one behaviour: the commands of the user
\* (start, stop, import) and the faults (a throwing scrollBy, a throwing pass)
MaxEvents == 3
\* largest number of tweet containers one detection pass enumerates
MaxContainers == 1
\* config.maxCacheSize of the analyzer under test
CfgMaxCacheSize == 1
\* config.maxScrollAttempts of the analyzer under test
CfgMaxScrollAttempts == 2
\* config.stabilityThreshold of the analyzer under test
CfgStabilityThreshold == 2
PageLen == 2
TextLen == 3

-----------------------------------------------------------------------------
(* JavaScript values *)

\* null / undefined where a string is expected
Null == << -1 >>

\* the number NaN where a number is expected
NaN == -1

\* !s for a string-or-null s
Falsy(s) == s = Null \/ s = <<>>

\* s || ''
OrEmpty(s) == IF Falsy(s) THEN <<>> ELSE s

Min(a, b) == IF a <= b THEN a ELSE b

\* the values of a sequence
Range(s) == {s[k] : k \in 1..Len(s)}

\* "::"
SepStr ==
  <<58, 58>>
\* "tma_"
IdPrefix ==
  <<116, 109, 97, 95>>

-----------------------------------------------------------------------------
(* generateUniqueId: a 32-bit string hash salted with Date.now().  A 32-bit *)
(* integer is kept as <<high 16 bits, low 16 bits>> of its two's           *)
(* complement, so that no intermediate product leaves the range of TLC's   *)
(* integers.                                                               *)

RECURSIVE DecimalDigits(_)
\* String(n) for an integer n >= 0
DecimalDigits(n) ==
  IF n < 10 THEN <<48 + n>> ELSE DecimalDigits(n \div 10) \o <<48 + (n % 10)>>

\* hash = ((hash << 5) - hash) + char; hash = hash & hash
HashStep(h, c) ==
  LET lo == 31 * h[2] + c
      hi == 31 * h[1] + (lo \div 65536)
  IN  <<hi % 65536, lo % 65536>>

RECURSIVE HashLoop(_, _, _)
\* n iterations of for (let i = 0; i < combinedString.length; i++), lines 251-255,
\* from the loop state st = [i, hash] (i counted from 1): the first half of the
\* iterations, then the others from the state the first half left
HashLoop(s, st, n) ==
  IF st.i > Len(s) \/ n = 0 THEN st
  ELSE IF n = 1 THEN [i |-> st.i + 1, hash |-> HashStep(st.hash, s[st.i])]
  ELSE HashLoop(s, HashLoop(s, st, n \div 2), n - (n \div 2))

\* Math.abs of a 32-bit two's complement value (2^31 for -2^31)
MathAbs(h) ==
  IF h[1] < 32768 THEN h
  ELSE IF h[2] = 0 THEN <<65536 - h[1], 0>>
  ELSE <<65535 - h[1], 65536 - h[2]>>

HexDigit(d) == IF d < 10 THEN 48 + d ELSE 87 + d

RECURSIVE Hex(_)
\* n.toString(16) for 0 <= n < 65536
Hex(n) == IF n < 16 THEN <<HexDigit(n)>> ELSE Hex(n \div 16) \o <<HexDigit(n % 16)>>

\* the low half of a number printed behind a non-zero high half: 4 hex digits
Hex4(n) ==
  <<HexDigit(n \div 4096), HexDigit((n \div 256) % 16),
    HexDigit((n \div 16) % 16), HexDigit(n % 16)>>

\* Math.abs(hash).toString(16)
ToString16(h) == IF h[1] = 0 THEN Hex(h[2]) ELSE Hex(h[1]) \o Hex4(h[2])

\* generateUniqueId(url, secondaryId) evaluated when Date.now() = now
generateUniqueId(url, secondaryId, now) ==
  LET combinedString ==
        OrEmpty(url) \o SepStr \o OrEmpty(secondaryId) \o SepStr \o DecimalDigits(now)
  IN  IdPrefix \o ToString16(MathAbs(HashLoop(combinedString, [i |-> 1, hash |-> <<0, 0>>], Len(combinedString)).hash))

-----------------------------------------------------------------------------
(* String helpers: String.prototype.includes, startsWith, split, replace *)

StartsWithAt(s, pat, i) ==
  /\ i + Len(pat) - 1 <= Len(s)
  /\ \A k \in 1..Len(pat) : s[i + k - 1] = pat[k]

\* position of the first occurrence of pat in s, 0 when there is none
IndexOf(s, pat) ==
  LET hits == {i \in 1..(Len(s) + 1) : StartsWithAt(s, pat, i)}
  IN  IF hits = {} THEN 0 ELSE CHOOSE i \in hits : \A j \in hits : i <= j

Includes(s, pat) == IndexOf(s, pat) # 0

StartsWith(s, pat) == StartsWithAt(s, pat, 1)

\* s.replace(pat, by) for a literal pattern: the first occurrence only
ReplaceFirst(s, pat, by) ==
  LET i == IndexOf(s, pat)
  IN  IF i = 0 THEN s
      ELSE SubSeq(s, 1, i - 1) \o by \o SubSeq(s, i + Len(pat), Len(s))

\* s.split(c)[0]
BeforeFirst(s, c) ==
  LET i == IndexOf(s, <<c>>) IN IF i = 0 THEN s ELSE SubSeq(s, 1, i - 1)

RECURSIVE Split(_, _)
\* s.split(c) for a one-character separator
Split(s, c) ==
  LET i == IndexOf(s, <<c>>)
  IN  IF i = 0 THEN <<s>> ELSE <<SubSeq(s, 1, i - 1)>> \o Split(SubSeq(s, i + 1, Len(s)), c)

RECURSIVE Keep(_, _)
\* s.replace(/[^...]/g, '') : the characters of s that are in the set keep
Keep(s, keep) ==
  IF s = <<>> THEN <<>>
  ELSE (IF Head(s) \in keep THEN <<Head(s)>> ELSE <<>>) \o Keep(Tail(s), keep)

-----------------------------------------------------------------------------
(* convertDurationToSeconds.  A parsed number is a fraction [num, den] with *)
(* den a power of ten, or NaNFloat.                                        *)

IsDigit(c) == c \in 48..57

RECURSIVE LeadingDigits(_)
LeadingDigits(s) ==
  IF s = <<>> \/ ~IsDigit(Head(s)) THEN <<>> ELSE <<Head(s)>> \o LeadingDigits(Tail(s))

RECURSIVE DigitsValue(_)
DigitsValue(s) ==
  IF s = <<>> THEN 0 ELSE 10 * DigitsValue(SubSeq(s, 1, Len(s) - 1)) + (s[Len(s)] - 48)

RECURSIVE Pow10(_)
Pow10(n) == IF n = 0 THEN 1 ELSE 10 * Pow10(n - 1)

NaNFloat == [num |-> NaN, den |-> 1]

\* the digits behind the dot that follows the integer part, if any
FractionDigits(rest) ==
  IF rest # <<>> /\ rest[1] = 46 THEN LeadingDigits(Tail(rest)) ELSE <<>>

\* the number with integer digits ip and fraction digits fp
FloatOf(ip, fp) ==
  IF ip = <<>> /\ fp = <<>> THEN NaNFloat
  ELSE [num |-> DigitsValue(ip) * Pow10(Len(fp)) + DigitsValue(fp), den |-> Pow10(Len(fp))]

ParseFloatFrom(s, ip) == FloatOf(ip, FractionDigits(SubSeq(s, Len(ip) + 1, Len(s))))

\* parseFloat(s) for s made of digits and dots
ParseFloat(s) == ParseFloatFrom(s, LeadingDigits(s))

IsNaNFloat(x) == x.num = NaN

\* Math.round(w[1]*parts[1] + ... + w[n]*parts[n]); NaN when a part is NaN
RoundWeighted(parts, w) ==
  IF \E k \in 1..Len(parts) : IsNaNFloat(parts[k]) THEN NaN
  ELSE LET den == CHOOSE d \in {parts[k].den : k \in 1..Len(parts)} :
                    \A k \in 1..Len(parts) : parts[k].den <= d
           term[k \in 0..Len(parts)] ==
             IF k = 0 THEN 0
             ELSE term[k - 1] + w[k] * parts[k].num * (den \div parts[k].den)
       IN  (2 * term[Len(parts)] + den) \div (2 * den)

\* lines 1885-1893: the seconds of the parsed parts
SecondsOfParts(parts) ==
  IF Len(parts) = 3 THEN RoundWeighted(parts, <<3600, 60, 1>>)
  ELSE IF Len(parts) = 2 THEN RoundWeighted(parts, <<60, 1>>)
  ELSE IF Len(parts) = 1 /\ ~IsNaNFloat(parts[1]) THEN RoundWeighted(parts, <<1>>)
  ELSE 0

\* normalizedText.split(':').map(part => parseFloat(part))
ParseParts(texts) == [k \in 1..Len(texts) |-> ParseFloat(texts[k])]

convertDurationToSeconds(durationText) ==
  IF Falsy(durationText) THEN 0
  ELSE SecondsOfParts(ParseParts(Split(Keep(durationText, (48..57) \cup {58, 46}), 58)))

-----------------------------------------------------------------------------
(* parseEngagementCount, as a method of the analyzer and in BMS.Utils *)

\* the characters that /[^0-9KkMmBb.]/g leaves: digits, the dot, K k M m B b
CountChars == (48..57) \cup {46, 75, 107, 77, 109, 66, 98}

\* s.toUpperCase(), were it to leave the letters as they are
ToUpperCase_Not(s) == s

\* s.toUpperCase() for ASCII text
ToUpperCase(s) == [k \in 1..Len(s) |-> IF s[k] \in 97..122 THEN s[k] - 32 ELSE s[k]]

\* Math.round(x * factor) for a parsed number x >= 0
RoundTimes(x, factor) ==
  IF factor % x.den = 0 THEN x.num * (factor \div x.den)
  ELSE (2 * x.num * factor + x.den) \div (2 * x.den)

\* lines 1709-1717 after cleaning: parseFloat of the digits and dots, times the
\* factor of the first of K, M, B that the clean text includes
CountOfClean(cleanText) ==
  LET number == ParseFloat(Keep(cleanText, (48..57) \cup {46}))
  IN  IF IsNaNFloat(number) THEN 0
      ELSE IF Includes(cleanText, <<75>>) THEN RoundTimes(number, 1000)
      ELSE IF Includes(cleanText, <<77>>) THEN RoundTimes(number, 1000000)
      ELSE IF Includes(cleanText, <<66>>) THEN RoundTimes(number, 1000000000)
      ELSE RoundTimes(number, 1)

\* the method of the analyzer; nothing in its try block throws for a string
parseEngagementCount(text) ==
  IF Falsy(text) THEN 0
  ELSE LET cleanText == ToUpperCase(Keep(text, CountChars))
       IN  IF Len(cleanText) = 0 THEN 0 ELSE CountOfClean(cleanText)

\* BMS.Utils.parseEngagementCount
UtilsParseEngagementCount(text) ==
  IF Falsy(text) THEN 0
  ELSE LET cleanText == ToUpperCase(Keep(text, CountChars))
       IN  IF Len(cleanText) = 0 THEN 0
           ELSE LET number == ParseFloat(Keep(cleanText, (48..57) \cup {46}))
                IN  IF IsNaNFloat(number) THEN 0
                    ELSE IF Includes(cleanText, <<75>>) THEN RoundTimes(number, 1000)
                    ELSE IF Includes(cleanText, <<77>>) THEN RoundTimes(number, 1000000)
                    ELSE IF Includes(cleanText, <<66>>) THEN RoundTimes(number, 1000000000)
                    ELSE RoundTimes(number, 1)

-----------------------------------------------------------------------------
(* String constants of the extractors *)

\* "url("
UrlOpen ==
  <<117, 114, 108, 40>>
\* "/img/"
PatImgPath ==
  <<47, 105, 109, 103, 47>>
\* "/vid/"
VidPath ==
  <<47, 118, 105, 100, 47>>
\* "?format=jpg"
PatFormatJpg ==
  <<63, 102, 111, 114, 109, 97, 116, 61, 106, 112, 103>>
\* "?tag=1"
TagOne ==
  <<63, 116, 97, 103, 61, 49>>
\* "http"
PatHttp ==
  <<104, 116, 116, 112>>
\* "//"
PatSlashSlash ==
  <<47, 47>>
\* "https:"
HttpsColon ==
  <<104, 116, 116, 112, 115, 58>>
\* "https://twitter.com"
TwitterOrigin ==
  <<104, 116, 116, 112, 115, 58, 47, 47, 116, 119, 105, 116, 116, 101, 114, 46, 99, 111, 109>>
\* "none"
NoneStr ==
  <<110, 111, 110, 101>>
\* "twimg.com"
PatTwimg ==
  <<116, 119, 105, 109, 103, 46, 99, 111, 109>>
\* "video"
PatVideo ==
  <<118, 105, 100, 101, 111>>
\* "_normal.jpg"
PatNormal ==
  <<95, 110, 111, 114, 109, 97, 108, 46, 106, 112, 103>>
\* "_bigger.jpg"
PatBigger ==
  <<95, 98, 105, 103, 103, 101, 114, 46, 106, 112, 103>>
\* "video_thumb"
PatVideoThumb ==
  <<118, 105, 100, 101, 111, 95, 116, 104, 117, 109, 98>>
\* "amplify_video_thumb"
PatAmplify ==
  <<97, 109, 112, 108, 105, 102, 121, 95, 118, 105, 100, 101, 111, 95, 116, 104, 117, 109, 98>>
\* "semantic_core_img"
PatSemantic ==
  <<115, 101, 109, 97, 110, 116, 105, 99, 95, 99, 111, 114, 101, 95, 105, 109, 103>>
\* "community_banner_img"
PatBanner ==
  <<99, 111, 109, 109, 117, 110, 105, 116, 121, 95, 98, 97, 110, 110, 101, 114, 95, 105, 109, 103>>
\* "profile_images"
PatProfile ==
  <<112, 114, 111, 102, 105, 108, 101, 95, 105, 109, 97, 103, 101, 115>>
\* "pbs.twimg.com/media/"
PatMedia ==
  <<112, 98, 115, 46, 116, 119, 105, 109, 103, 46, 99, 111, 109, 47, 109, 101, 100, 105, 97, 47>>
\* "?format=jpg&name=4096x4096"
MaxQuality ==
  <<63, 102, 111, 114, 109, 97, 116, 61, 106, 112, 103, 38, 110, 97, 109, 101, 61, 52, 48, 57, 54, 120, 52, 48, 57, 54>>

-----------------------------------------------------------------------------
(* The Map operations the caches use.  A cache is the sequence of its      *)
(* values in insertion order; the key of a value is its id.                *)

\* cache.has(id)
MapHas(cache, id) == \E k \in 1..Len(cache) : cache[k].id = id

\* cache.set(id, value): a new key is appended, an existing key keeps its place
MapSet(cache, value) ==
  IF MapHas(cache, value.id)
    THEN [k \in 1..Len(cache) |-> IF cache[k].id = value.id THEN value ELSE cache[k]]
    ELSE Append(cache, value)

-----------------------------------------------------------------------------
(* extractVideoData.  A tweet container is seen through what the selectors *)
(* of the extractor read from it: el.video is                              *)
(*   hasContainer  the video container selector matches                    *)
(*   hasEl, elSrc, elPoster, elDuration   the <video> element              *)
(*   sources       the src of its <source> children                        *)
(*   dataAttr      data-url || data-video-url || data-src of the element   *)
(*   bgImage       style.backgroundImage of the media-page video div       *)
(*   others        the attribute chain of each element of videoSources     *)
(*   timeText      the text of the duration label (Null: no label)         *)
(*   thumbnail     extractThumbnail(element).thumbnailUrl                  *)

\* the least element of a nonempty set of numbers
Least(S) == CHOOSE x \in S : \A y \in S : x <= y

\* bg without "url(", an opening quote, and the closing ")" or quote and ")" at p
UrlInnerCut(bg, i, start, p) ==
  SubSeq(bg, 1, i - 1) \o SubSeq(bg, start, p - 1)
  \o SubSeq(bg, IF bg[p] = 41 THEN p + 1 ELSE p + 2, Len(bg))

\* ends: where ['"]?\) matches behind the lazy group (.*?) that begins at start
UrlInnerFrom(bg, i, start, ends) ==
  IF i = 0 \/ ends = {} THEN bg ELSE UrlInnerCut(bg, i, start, Least(ends))

UrlInnerAt(bg, i, start) ==
  UrlInnerFrom(bg, i, start,
               {p \in start..Len(bg) :
                  \/ bg[p] = 41
                  \/ bg[p] \in {39, 34} /\ p < Len(bg) /\ bg[p + 1] = 41})

UrlInnerOf(bg, i) ==
  UrlInnerAt(bg, i, IF i + 4 <= Len(bg) /\ bg[i + 4] \in {39, 34} THEN i + 5 ELSE i + 4)

\* bgImage.replace(/url\(['"]?(.*?)['"]?\)/, '$1')
UrlInner(bg) == UrlInnerOf(bg, IndexOf(bg, UrlOpen))

\* a.replace(/\?format=jpg.*$/, '?tag=1')
RetagFrom(a, i) == IF i = 0 THEN a ELSE SubSeq(a, 1, i - 1) \o TagOne

Retag(a) == RetagFrom(a, IndexOf(a, PatFormatJpg))

\* posterSrc.replace(/\/img\//, '/vid/').replace(/\?format=jpg.*$/, '?tag=1')
ThumbToVideoUrl(posterSrc) == Retag(ReplaceFirst(posterSrc, PatImgPath, VidPath))

\* for (const source of sources) { if (source.src) { videoSrc = source.src; break; } }
FirstSource(sources, videoSrc) ==
  LET hits == {k \in 1..Len(sources) : ~Falsy(sources[k])}
  IN  IF hits = {} THEN videoSrc ELSE sources[CHOOSE k \in hits : \A j \in hits : k <= j]

\* for (const source of videoSources) { videoSrc = <attribute chain>; if (videoSrc) break; }
OtherSources(others, videoSrc) ==
  LET hits == {k \in 1..Len(others) : ~Falsy(others[k])}
  IN  IF others = <<>> THEN videoSrc
      ELSE IF hits = {} THEN others[Len(others)]
      ELSE others[CHOOSE k \in hits : \A j \in hits : k <= j]

\* lines 1287-1308: the <video> element, its <source> children, its data attributes
ElementSrcFrom(v, videoSrc) ==
  IF Falsy(videoSrc) THEN v.dataAttr ELSE videoSrc

ElementSources(v) ==
  IF ~v.hasEl THEN [videoSrc |-> Null, posterSrc |-> Null]
  ELSE [videoSrc |-> ElementSrcFrom(v, IF Falsy(v.elSrc) THEN FirstSource(v.sources, v.elSrc)
                                        ELSE v.elSrc),
        posterSrc |-> v.elPoster]

\* lines 1313-1322: the background image of the media-page video
PosterSources(posterSrc) == [videoSrc |-> ThumbToVideoUrl(posterSrc), posterSrc |-> posterSrc]

BackgroundSources(v, r) ==
  IF ~Falsy(v.bgImage) THEN PosterSources(UrlInner(v.bgImage)) ELSE r

\* lines 1311-1334: the additional selectors, tried when the element gave no source
AdditionalSources(v, r) ==
  [videoSrc |-> OtherSources(v.others, r.videoSrc), posterSrc |-> r.posterSrc]

MoreSources(v, r) ==
  IF Falsy(r.videoSrc) THEN AdditionalSources(v, BackgroundSources(v, r)) ELSE r

\* lines 1278-1334: the source and the poster before the tweet-URL fallback
ResolveVideoSrc(v) == MoreSources(v, ElementSources(v))

\* lines 1286-1343: element-reported duration, else the parsed duration label
ResolveDuration(v) ==
  IF (IF v.hasEl THEN v.elDuration ELSE 0) = 0 /\ v.timeText # Null
    THEN convertDurationToSeconds(v.timeText)
    ELSE IF v.hasEl THEN v.elDuration ELSE 0

buildFullUrl(statusLink) ==
  IF Falsy(statusLink) THEN <<>>
  ELSE IF StartsWith(statusLink, PatHttp) THEN statusLink
  ELSE IF StartsWith(statusLink, PatSlashSlash) THEN HttpsColon \o statusLink
  ELSE TwitterOrigin \o (IF StartsWith(statusLink, <<47>>) THEN <<>> ELSE <<47>>) \o statusLink

\* the duplicate check of extractVideoData, lines 1369-1370, were it to look for the
\* id alone
videoIsDuplicate_IdOnly(cache, videoId, videoSrc) == MapHas(cache, videoId)

\* the duplicate check as the code makes it: the id, then the url of every record
videoIsDuplicate(cache, videoId, videoSrc) ==
  \/ MapHas(cache, videoId)
  \/ \E k \in 1..Len(cache) : cache[k].url = videoSrc

\* lines 1360-1366: the rejection test and the id
VideoCandidateWith(el, videoSrc, posterSrc, fullUrl, now) ==
  [rejected |-> ~el.video.hasContainer \/ (Falsy(videoSrc) /\ Falsy(posterSrc)),
   id |-> generateUniqueId(OrEmpty(el.tweetUrl),
                           IF Falsy(videoSrc) THEN posterSrc ELSE videoSrc, now),
   url |-> videoSrc, fullUrl |-> fullUrl, durationSeconds |-> ResolveDuration(el.video)]

\* lines 1345-1358: the fallbacks to the tweet URL and to the thumbnail
VideoCandidateFrom(el, r, fullUrl, now) ==
  VideoCandidateWith(el,
                     IF Falsy(r.videoSrc) /\ ~Falsy(fullUrl) THEN fullUrl ELSE r.videoSrc,
                     IF Falsy(r.posterSrc) THEN el.video.thumbnail ELSE r.posterSrc,
                     fullUrl, now)

\* lines 1250-1366 of extractVideoData: what it reads from the element when
\* Date.now() = now, before it looks at the cache
videoCandidate(el, now) ==
  VideoCandidateFrom(el, ResolveVideoSrc(el.video), buildFullUrl(el.tweetUrl), now)

-----------------------------------------------------------------------------
(* extractImageData.  el.images holds, for each image container of the     *)
(* tweet, imgSrc (the src of its <img>, '' when there is none) and bgImage *)
(* (the computed background-image).                                        *)

\* lines 1455-1471
ResolveImageSrc(c) ==
  IF ~Falsy(c.imgSrc) THEN c.imgSrc
  ELSE IF ~Falsy(c.bgImage) /\ c.bgImage # NoneStr THEN UrlInner(c.bgImage)
  ELSE <<>>

\* lines 1474-1483: not an image of a tweet
SkipImage(imageSrc) ==
  \/ Falsy(imageSrc)
  \/ ~Includes(imageSrc, PatTwimg)
  \/ Includes(imageSrc, PatVideo)
  \/ Includes(imageSrc, PatNormal)
  \/ Includes(imageSrc, PatBigger)
  \/ Includes(imageSrc, PatVideoThumb)
  \/ Includes(imageSrc, PatAmplify)
  \/ Includes(imageSrc, PatSemantic)
  \/ Includes(imageSrc, PatBanner)
  \/ Includes(imageSrc, PatProfile)

\* lines 1489-1493
UpgradeQuality(imageSrc) ==
  IF Includes(imageSrc, PatMedia) THEN BeforeFirst(imageSrc, 63) \o MaxQuality ELSE imageSrc

\* the duplicate check of extractImageData, lines 1499-1500, were it to look for the
\* id alone
imageIsDuplicate_IdOnly(cache, imageId, imageSrc) == MapHas(cache, imageId)

\* the duplicate check as the code makes it: the id, then the url of every record
imageIsDuplicate(cache, imageId, imageSrc) ==
  \/ MapHas(cache, imageId)
  \/ \E k \in 1..Len(cache) : cache[k].url = imageSrc

ImageCandidateWith(raw, imageSrc, tweetUrl, now) ==
  [rejected |-> SkipImage(raw),
   id |-> generateUniqueId(OrEmpty(tweetUrl), imageSrc, now),
   url |-> imageSrc, fullUrl |-> buildFullUrl(tweetUrl)]

ImageCandidateFrom(raw, tweetUrl, now) ==
  ImageCandidateWith(raw, UpgradeQuality(raw), tweetUrl, now)

\* one iteration of the forEach over the image containers, lines 1447-1496: what
\* it reads from the container when Date.now() = now, before it looks at the cache
imageCandidate(c, tweetUrl, now) == ImageCandidateFrom(ResolveImageSrc(c), tweetUrl, now)

-----------------------------------------------------------------------------
(* The feed: the tweet containers a page can show.  What the extractors   *)
(* read from a container of the feed at a given time is computed once.     *)

\* "/a/status/1"
TweetA ==
  <<47, 97, 47, 115, 116, 97, 116, 117, 115, 47, 49>>
\* "/b/status/2"
TweetB ==
  <<47, 98, 47, 115, 116, 97, 116, 117, 115, 47, 50>>
\* "https://video.twimg.com/a"
VidA ==
  <<104, 116, 116, 112, 115, 58, 47, 47, 118, 105, 100, 101, 111, 46, 116, 119, 105, 109, 103, 46, 99, 111, 109, 47, 97>>
\* "https://video.twimg.com/b"
VidB ==
  <<104, 116, 116, 112, 115, 58, 47, 47, 118, 105, 100, 101, 111, 46, 116, 119, 105, 109, 103, 46, 99, 111, 109, 47, 98>>
\* "https://video.twimg.com/c"
VidC ==
  <<104, 116, 116, 112, 115, 58, 47, 47, 118, 105, 100, 101, 111, 46, 116, 119, 105, 109, 103, 46, 99, 111, 109, 47, 99>>
\* "https://pbs.twimg.com/media/A?name=small"
ImgA ==
  <<104, 116, 116, 112, 115, 58, 47, 47, 112, 98, 115, 46, 116, 119, 105, 109, 103, 46, 99, 111, 109, 47, 109, 101, 100, 105, 97, 47, 65, 63, 110, 97, 109, 101, 61, 115, 109, 97, 108, 108>>
\* "https://pbs.twimg.com/media/A?name=large"
ImgALarge ==
  <<104, 116, 116, 112, 115, 58, 47, 47, 112, 98, 115, 46, 116, 119, 105, 109, 103, 46, 99, 111, 109, 47, 109, 101, 100, 105, 97, 47, 65, 63, 110, 97, 109, 101, 61, 108, 97, 114, 103, 101>>
\* "https://pbs.twimg.com/media/B"
ImgB ==
  <<104, 116, 116, 112, 115, 58, 47, 47, 112, 98, 115, 46, 116, 119, 105, 109, 103, 46, 99, 111, 109, 47, 109, 101, 100, 105, 97, 47, 66>>
\* "https://pbs.twimg.com/profile_images/x_normal.jpg"
ImgAvatar ==
  <<104, 116, 116, 112, 115, 58, 47, 47, 112, 98, 115, 46, 116, 119, 105, 109, 103, 46, 99, 111, 109, 47, 112, 114, 111, 102, 105, 108, 101, 95, 105, 109, 97, 103, 101, 115, 47, 120, 95, 110, 111, 114, 109, 97, 108, 46, 106, 112, 103>>
\* "0:05"
Label5 ==
  <<48, 58, 48, 53>>
\* "0:10"
Label10 ==
  <<48, 58, 49, 48>>
\* "1:bad"
LabelBad ==
  <<49, 58, 98, 97, 100>>
\* "x"
IdX ==
  <<120>>
\* "y"
IdY ==
  <<121>>

NoVideo ==
  [hasContainer |-> FALSE, hasEl |-> FALSE, elSrc |-> <<>>, elPoster |-> <<>>,
   elDuration |-> 0, sources |-> <<>>, dataAttr |-> Null, bgImage |-> Null,
   others |-> <<>>, timeText |-> Null, thumbnail |-> <<>>]

\* a <video src=...> inside a video player, with a duration label
PlainVideo(src, label) ==
  [NoVideo EXCEPT !.hasContainer = TRUE, !.hasEl = TRUE, !.elSrc = src, !.timeText = label]

Img(src) == [imgSrc |-> src, bgImage |-> NoneStr]

\* the candidates of a container whose extraction throws: the image containers at
\* these indexes, and the video.  None throws in a well-formed container.
NoThrow == [images |-> {}, video |-> FALSE]

\* the tweet containers of the feed
Pool ==
  << [tweetUrl |-> TweetA, images |-> <<Img(ImgAvatar), Img(ImgA)>>, hasVideo |-> TRUE,
      video |-> PlainVideo(VidA, Label5), thrown |-> NoThrow],
     [tweetUrl |-> TweetB, images |-> <<Img(ImgALarge)>>, hasVideo |-> TRUE,
      video |-> PlainVideo(VidC, LabelBad), thrown |-> NoThrow],
     [tweetUrl |-> TweetB, images |-> <<>>, hasVideo |-> TRUE,
      video |-> PlainVideo(VidB, Label10), thrown |-> NoThrow] >>

\* the times Date.now() can return
Times == 0..MaxNow

PoolVideoCandidates ==
  {[el |-> el, now |-> now, candidate |-> videoCandidate(el, now)] :
     el \in Range(Pool), now \in Times}

PoolImageCandidates ==
  UNION {{[el |-> el, k |-> k, now |-> now,
           candidate |-> imageCandidate(el.images[k], el.tweetUrl, now)] :
            k \in 1..Len(el.images), now \in Times} : el \in Range(Pool)}

\* the candidate the table knows, else the computed one
CandidateIn(known, computed) ==
  IF known = {} THEN computed ELSE (CHOOSE t \in known : TRUE).candidate

\* the container without what makes its extraction throw
Sound(el) == [el EXCEPT !.thrown = NoThrow]

\* videoCandidate(el, now), read from the table for a container of the feed
VideoCandidateOf(el, now) ==
  CandidateIn({t \in PoolVideoCandidates : t.el = Sound(el) /\ t.now = now},
              videoCandidate(el, now))

\* imageCandidate(el.images[k], el.tweetUrl, now), read from the table likewise
ImageCandidateOf(el, k, now) ==
  CandidateIn({t \in PoolImageCandidates : t.el = Sound(el) /\ t.k = k /\ t.now = now},
              imageCandidate(el.images[k], el.tweetUrl, now))

-----------------------------------------------------------------------------
(* extractVideoData and extractImageData on the caches *)

\* lines 1369-1395: the duplicate check and the insertion of candidate c
insertVideo(cache, c, count) ==
  IF c.rejected THEN [cache |-> cache, n |-> 0]
  ELSE IF videoIsDuplicate(cache, c.id, c.url) THEN [cache |-> cache, n |-> 0]
  ELSE [cache |-> MapSet(cache, [id |-> c.id, url |-> c.url, fullUrl |-> c.fullUrl,
                                 durationSeconds |-> c.durationSeconds,
                                 discoveredAtScroll |-> count]),
        n |-> 1]

\* extractVideoData(element) with state.videoCache = cache, state.scrollCount = count
\* and Date.now() = now: the cache afterwards and the number it returns
\* the catch of lines 1396-1399 returns 0 when reading the element throws
extractVideoData(cache, el, count, now) ==
  IF el.thrown.video THEN [cache |-> cache, n |-> 0]
  ELSE insertVideo(cache, VideoCandidateOf(el, now), count)

\* lines 1499-1531: the duplicate check and the insertion of candidate c
insertImage(acc, c, count) ==
  IF c.rejected THEN acc
  ELSE IF imageIsDuplicate(acc.cache, c.id, c.url) THEN acc
  ELSE [cache |-> MapSet(acc.cache, [id |-> c.id, url |-> c.url, fullUrl |-> c.fullUrl,
                                     discoveredAtScroll |-> count]),
        n |-> acc.n + 1]

\* one iteration of the forEach over the image containers, lines 1447-1536
extractOneImage(acc, el, k, count, now) ==
  insertImage(acc, ImageCandidateOf(el, k, now), count)

\* the iteration that follows one that threw, were the throw to leave the forEach
NextAfterThrow_Leave(el, k) == Len(el.images) + 1

\* the catch of lines 1533-1535 is inside the callback: forEach goes on
NextAfterThrow(el, k) == k + 1

RECURSIVE extractImagesFrom(_, _, _, _, _)
extractImagesFrom(acc, el, k, count, now) ==
  IF k > Len(el.images) THEN acc
  ELSE IF k \in el.thrown.images
    THEN extractImagesFrom(acc, el, NextAfterThrow(el, k), count, now)
  ELSE extractImagesFrom(extractOneImage(acc, el, k, count, now), el, k + 1, count, now)

\* extractImageData(element): the cache afterwards and the number it returns
extractImageData(cache, el, count, now) ==
  extractImagesFrom([cache |-> cache, n |-> 0], el, 1, count, now)

-----------------------------------------------------------------------------
(* detectMedia over the tweet containers the page shows.  config.detectImages, *)
(* detectVideos, includeReplies and includeRetweets have their default, true.  *)

\* the counts and caches after a container gave im and vi
countContainer(acc, im, vi) ==
  [videoCache |-> vi.cache, imageCache |-> im.cache,
   newVideos |-> acc.newVideos + vi.n, newImages |-> acc.newImages + im.n]

\* the body of tweetContainers.forEach, lines 1065-1121
detectContainer(acc, el, count, now) ==
  countContainer(acc,
                 IF el.images # <<>>
                   THEN extractImageData(acc.imageCache, el, count, now)
                   ELSE [cache |-> acc.imageCache, n |-> 0],
                 IF el.hasVideo
                   THEN extractVideoData(acc.videoCache, el, count, now)
                   ELSE [cache |-> acc.videoCache, n |-> 0])

RECURSIVE detectFrom(_, _, _, _, _)
detectFrom(acc, containers, k, count, now) ==
  IF k > Len(containers) THEN acc
  ELSE detectFrom(detectContainer(acc, containers[k], count, now), containers, k + 1, count, now)

\* detectMedia(): both caches afterwards and the counts it returns
detectMedia(vCache, iCache, containers, count, now) ==
  detectFrom([videoCache |-> vCache, imageCache |-> iCache, newVideos |-> 0, newImages |-> 0],
             containers, 1, count, now)

-----------------------------------------------------------------------------
(* checkCacheSize.  Array.prototype.sort is stable when the comparator is  *)
(* consistent; b.key - a.key is NaN, hence "equal", whenever a key is NaN, *)
(* which is inconsistent as soon as two numeric keys differ, and the order *)
(* of the result is then implementation-defined: any permutation.          *)

\* the field the video comparator reads
videoRank == "durationSeconds"

\* the field the image comparator reads
imageRank == "discoveredAtScroll"

\* a is placed before b by the comparator (a, b) => b[1].rank - a[1].rank
SortsBefore(a, b, rank) == a[rank] # NaN /\ b[rank] # NaN /\ a[rank] > b[rank]

ConsistentComparator(arr, rank) ==
  LET keys == {arr[k][rank] : k \in 1..Len(arr)}
  IN  NaN \notin keys \/ Cardinality(keys \ {NaN}) <= 1

\* x inserted into the sorted sequence behind every element it does not sort before
InsertSorted(sorted, x, rank) ==
  LET later == {k \in 1..Len(sorted) : SortsBefore(x, sorted[k], rank)}
      at == IF later = {} THEN Len(sorted) + 1 ELSE CHOOSE k \in later : \A j \in later : k <= j
  IN  SubSeq(sorted, 1, at - 1) \o <<x>> \o SubSeq(sorted, at, Len(sorted))

StableSort(arr, rank) ==
  LET sorted[n \in 0..Len(arr)] ==
        IF n = 0 THEN <<>> ELSE InsertSorted(sorted[n - 1], arr[n], rank)
  IN  sorted[Len(arr)]

ArrayPermutations(arr) ==
  LET n == Len(arr)
      bij == {f \in [1..n -> 1..n] : \A a, b \in 1..n : f[a] = f[b] => a = b}
  IN  {[k \in 1..n |-> arr[f[k]]] : f \in bij}

\* the arrays entries.sort((a, b) => b[1].rank - a[1].rank) can produce
SortOutcomes(arr, rank) ==
  IF ConsistentComparator(arr, rank) THEN {StableSort(arr, rank)}
  ELSE ArrayPermutations(arr)

\* lines 614-624 and 627-637: the caches one cache can be trimmed to
TrimOutcomes(cache, maxCacheSize, rank) ==
  IF Len(cache) > maxCacheSize
    THEN {SubSeq(sorted, 1, maxCacheSize) : sorted \in SortOutcomes(cache, rank)}
    ELSE {cache}

\* checkCacheSize(): the pairs of caches it can leave
checkCacheSize(vCache, iCache, maxCacheSize) ==
  {[videoCache |-> v, imageCache |-> i] :
     v \in TrimOutcomes(vCache, maxCacheSize, videoRank),
     i \in TrimOutcomes(iCache, maxCacheSize, imageRank)}

-----------------------------------------------------------------------------
(* infiniteScroll / scrollStep.  A loop is the closure of one call of      *)
(* infiniteScroll whose timer is pending:                                  *)
(*   currentDelay, consecutiveErrors         the backoff variables         *)
(*   videosCountBefore, imagesCountBefore    the sizes read before the     *)
(*                                           scroll of the pending pass    *)
(* Delays are kept in 1/32 ms, so that five factors of 1.5 stay integral.  *)

ScaledMs(ms) == 32 * ms

\* Math.min(currentDelay * 1.5, 10000)
BackoffDelay(currentDelay) == Min((currentDelay * 3) \div 2, ScaledMs(10000))

\* lines 925-926
NewLoop(cfg) ==
  [currentDelay |-> ScaledMs(cfg.scrollDelay), consecutiveErrors |-> 0,
   videosCountBefore |-> 0, imagesCountBefore |-> 0]

\* the test of line 936, were it never to pass
ReachedMaxAttempts_Never(count, cfg) == FALSE

\* the test of line 936
ReachedMaxAttempts(count, cfg) == count >= cfg.maxScrollAttempts

\* the test of line 930, were a stop never observed
LoopCancelled_Off(scrolling) == FALSE

\* line 930: !this.state.isScrolling
LoopCancelled(scrolling) == ~scrolling

\* the test of line 962, were the loop to give up at the third error
TooManyErrors_AtThree(errors) == errors >= 3

\* line 962: consecutiveErrors >= 5
TooManyErrors(errors) == errors >= 5

\* One call of scrollStep (lines 928-1029, up to setTimeout) for loop L with
\* state.isScrolling = scrolling, state.scrollCount = count and caches of
\* vSize and iSize records; scrollOk: window.scrollBy does not throw.
\* ended: "none" (a timer is set) or how the promise of the loop was resolved.
scrollStep(scrolling, count, L, vSize, iSize, scrollOk, cfg) ==
  IF LoopCancelled(scrolling)
    THEN [isScrolling |-> FALSE, scrollCount |-> count, loop |-> L,
          ended |-> "stopped", scrolled |-> FALSE]
  ELSE IF ReachedMaxAttempts(count, cfg)
    THEN [isScrolling |-> FALSE, scrollCount |-> count, loop |-> L,
          ended |-> "max", scrolled |-> FALSE]
  ELSE IF scrollOk
    THEN [isScrolling |-> TRUE, scrollCount |-> count + 1,
          loop |-> [currentDelay |-> ScaledMs(cfg.scrollDelay), consecutiveErrors |-> 0,
                    videosCountBefore |-> vSize, imagesCountBefore |-> iSize],
          ended |-> "none", scrolled |-> TRUE]
  ELSE LET errors == L.consecutiveErrors + 1
           after == [currentDelay |-> BackoffDelay(L.currentDelay),
                     consecutiveErrors |-> errors,
                     videosCountBefore |-> vSize, imagesCountBefore |-> iSize]
       IN  IF TooManyErrors(errors)
             THEN [isScrolling |-> FALSE, scrollCount |-> count, loop |-> after,
                   ended |-> "failed", scrolled |-> FALSE]
             ELSE [isScrolling |-> TRUE, scrollCount |-> count, loop |-> after,
                   ended |-> "none", scrolled |-> FALSE]

\* startAnalysis after "await this.infiniteScroll()", lines 885-902: the path taken
AnalysisOutcome(scrolling) == IF ~scrolling THEN "paused" ELSE "complete"

\* the test of line 1007, were it to pass one pass later
ContentStabilized_Late(counter, cfg) == counter > cfg.stabilityThreshold

\* line 1007: this.state.stabilityCounter >= this.config.stabilityThreshold
ContentStabilized(counter, cfg) == counter >= cfg.stabilityThreshold

-----------------------------------------------------------------------------
(* importJsonData and exportDataAsJson.  A payload is the parsed JSON:     *)
(* videos and images (hasVideos, hasImages: the key is present) and stats  *)
(* (NoStats when absent).  A record without an id has id = Null.           *)

NoStats == [present |-> FALSE, scrollCount |-> 0]

\* null where an element of importData.videos or importData.images is expected
NullRecord == <<>>

\* the test of lines 2939 and 2957, were no record ever skipped
importSkips_Never(cache, id, replace) == FALSE

\* lines 2939 and 2957: !replace && cache.has(id)
importSkips(cache, id, replace) == ~replace /\ MapHas(cache, id)

\* lines 2932-2947 and 2950-2965: the loop over the records of one kind
\* one iteration of an import loop for a record that is an object
importRecord(prev, rec, id, replace) ==
  IF importSkips(prev.cache, id, replace)
    THEN [prev EXCEPT !.skipped = @ + 1]
    ELSE [prev EXCEPT !.cache = MapSet(prev.cache, [rec EXCEPT !.id = id]),
                      !.added = @ + 1]

\* threw: "!video.id" (line 2933) read a property of null and the loop was left
importRecords(cache, records, replace, now) ==
  LET step[k \in 0..Len(records)] ==
        IF k = 0 THEN [cache |-> cache, added |-> 0, skipped |-> 0, threw |-> FALSE]
        ELSE IF step[k - 1].threw THEN step[k - 1]
        ELSE IF records[k] = NullRecord THEN [step[k - 1] EXCEPT !.threw = TRUE]
        ELSE importRecord(step[k - 1], records[k],
                          IF Falsy(records[k].id)
                            THEN generateUniqueId(OrEmpty(records[k].url),
                                                  OrEmpty(records[k].fullUrl), now)
                            ELSE records[k].id,
                          replace)
  IN  step[Len(records)]

\* the image loop, which is not entered when the video loop threw
importImages(v, cache, records, replace, now) ==
  IF v.threw THEN [cache |-> cache, added |-> 0, skipped |-> 0, threw |-> TRUE]
  ELSE importRecords(cache, records, replace, now)

\* the cache the import loops start from, were replace not to clear it
importStartCache_Keep(cache, replace) == cache

\* lines 2925-2929: both caches are cleared when replace is set
importStartCache(cache, replace) == IF replace THEN <<>> ELSE cache

\* the validation of line 2911, were it to look at the videos alone
importRejects_VideosOnly(payload) == ~payload.hasVideos

\* line 2911: !importData.videos || !importData.images
importRejects(payload) == ~payload.hasVideos \/ ~payload.hasImages

\* exportDataAsJson(): the object it serialises
exportDataAsJson(vCache, iCache, count) ==
  [videos |-> vCache, images |-> iCache,
   stats |-> [totalVideos |-> Len(vCache), totalImages |-> Len(iCache),
              totalMedia |-> Len(vCache) + Len(iCache), scrollCount |-> count]]

-----------------------------------------------------------------------------
(* The inputs of the model: what one detection pass enumerates and the     *)
(* payloads a user can import.                                             *)

\* what document.querySelectorAll can return in one pass: sequences of pool indexes
ContainerChoices ==
  UNION {[1..n -> 1..Len(Pool)] : n \in 0..MaxContainers}

\* containers of the feed of which reading a candidate throws: the first image
\* container of c1, the video of c1, and c2 as a whole
FaultyPool ==
  << [Pool[1] EXCEPT !.thrown = [images |-> {1}, video |-> FALSE]],
     [Pool[1] EXCEPT !.thrown = [images |-> {}, video |-> TRUE]],
     [Pool[2] EXCEPT !.thrown = [images |-> {1}, video |-> TRUE]] >>

\* "url("https://pbs.twimg.com/img/a?format=jpg")"
BgThumb ==
  <<117, 114, 108, 40, 34, 104, 116, 116, 112, 115, 58, 47, 47, 112, 98, 115, 46, 116, 119, 105, 109, 103, 46, 99, 111, 109, 47, 105, 109, 103, 47, 97, 63, 102, 111, 114, 109, 97, 116, 61, 106, 112, 103, 34, 41>>

\* a tweet with the video v and no image
VideoTweet(v) ==
  [tweetUrl |-> TweetA, images |-> <<>>, hasVideo |-> TRUE, video |-> v, thrown |-> NoThrow]

\* a video player without a <video src>: the media-page background image, a
\* <source> child, a data attribute, other elements matching the last selectors
PlayerVideo == [NoVideo EXCEPT !.hasContainer = TRUE]

\* a tweet that the feed shows with another image and without a video, and tweets
\* whose video has no <video src>
LaterPool ==
  << [tweetUrl |-> TweetB, images |-> <<Img(ImgB)>>, hasVideo |-> FALSE,
      video |-> NoVideo, thrown |-> NoThrow],
     VideoTweet([PlayerVideo EXCEPT !.bgImage = BgThumb]),
     VideoTweet([PlayerVideo EXCEPT !.bgImage = BgThumb, !.others = <<VidB>>]),
     VideoTweet([PlayerVideo EXCEPT !.bgImage = BgThumb, !.others = <<Null>>]),
     VideoTweet([PlayerVideo EXCEPT !.hasEl = TRUE, !.sources = <<Null, VidA>>,
                                    !.dataAttr = VidB, !.bgImage = BgThumb]),
     VideoTweet([PlayerVideo EXCEPT !.hasEl = TRUE, !.dataAttr = VidB, !.others = <<VidA>>]),
     VideoTweet([PlayerVideo EXCEPT !.others = <<Null, VidA>>]),
     VideoTweet(PlayerVideo) >>

Containers(choice) ==
  [k \in 1..Len(choice) |-> (Pool \o FaultyPool \o LaterPool)[choice[k]]]

\* the pages of a feed with two images: nothing, c1, or the tweet of LaterPool
RunChoices == {<<>>, <<1>>, <<Len(Pool) + Len(FaultyPool) + 1>>}

\* the pages of a feed showing one of the tweets of LaterPool, or none
ExtractChoices ==
  {<<>>} \cup {<<Len(Pool) + Len(FaultyPool) + k>> : k \in 2..Len(LaterPool)}

\* the pages of PageLen containers at most, sound or faulty
PageChoices ==
  UNION {[1..n -> 1..(Len(Pool) + Len(FaultyPool))] : n \in 0..PageLen}

PayloadVideo(id, url, seconds) ==
  [id |-> id, url |-> url, fullUrl |-> <<>>, durationSeconds |-> seconds,
   discoveredAtScroll |-> 0]

PayloadImage(id, url) ==
  [id |-> id, url |-> url, fullUrl |-> <<>>, discoveredAtScroll |-> 0]

\* the payloads handed to importJsonData: one with a repeated id, a record without
\* id and statistics; a small one; one without the videos key; one without the
\* images key; one whose videos hold a null
Payloads ==
  { [hasVideos |-> TRUE, hasImages |-> TRUE,
     videos |-> <<PayloadVideo(IdX, VidA, 5), PayloadVideo(IdX, VidB, 7),
                  PayloadVideo(Null, VidB, 10)>>,
     images |-> <<PayloadImage(IdY, ImgB)>>,
     stats |-> [present |-> TRUE, scrollCount |-> CfgMaxScrollAttempts + 1]],
    [hasVideos |-> TRUE, hasImages |-> TRUE,
     videos |-> <<PayloadVideo(IdY, VidB, 10)>>, images |-> <<>>, stats |-> NoStats],
    [hasVideos |-> FALSE, hasImages |-> TRUE, videos |-> <<>>, images |-> <<>>,
     stats |-> NoStats],
    [hasVideos |-> TRUE, hasImages |-> FALSE,
     videos |-> <<PayloadVideo(IdY, VidB, 10)>>, images |-> <<>>, stats |-> NoStats],
    [hasVideos |-> TRUE, hasImages |-> TRUE,
     videos |-> <<PayloadVideo(IdX, VidB, 10), NullRecord>>,
     images |-> <<PayloadImage(IdY, ImgB)>>, stats |-> NoStats] }

-----------------------------------------------------------------------------
(* The state machine *)

NoPayload ==
  [hasVideos |-> TRUE, hasImages |-> TRUE, videos |-> <<>>, images |-> <<>>, stats |-> NoStats]

\* the record of a task that scrolled, detected and imported nothing
Quiet(act) ==
  [act |-> act, scrolled |-> FALSE, detected |-> FALSE, newVideos |-> 0, newImages |-> 0,
   ended |-> "none", outcome |-> "none", error |-> FALSE, choice |-> <<>>,
   payload |-> NoPayload, replace |-> FALSE, text |-> Null, count |-> 0, utilsCount |-> 0,
   result |-> [videosAdded |-> 0, imagesAdded |-> 0, videosSkipped |-> 0,
               imagesSkipped |-> 0]]

Init ==
  /\ config = [maxCacheSize |-> CfgMaxCacheSize, maxScrollAttempts |-> CfgMaxScrollAttempts,
               stabilityThreshold |-> CfgStabilityThreshold, scrollDelay |-> 5500]
  /\ onTwitter \in BOOLEAN
  /\ isAnalyzing = FALSE
  /\ isProcessing = FALSE
  /\ isScrolling = FALSE
  /\ scrollCount = 0
  /\ stabilityCounter = 0
  /\ lastMediaDiscoveryScroll = 0
  /\ videoCache = <<>>
  /\ imageCache = <<>>
  /\ loops = <<>>
  /\ dateNow = 0
  /\ last = Quiet("init")
  /\ events = 0

\* n more outside events, while the behaviour has room for them
Spend(n) == events + n <= MaxEvents /\ events' = events + n

\* the loops without the k-th
RemoveAt(seq, k) == SubSeq(seq, 1, k - 1) \o SubSeq(seq, k + 1, Len(seq))

\* how startAnalysis goes on once the promise of its loop is resolved: "none" while
\* the loop waits for a timer
Ending(st) == IF st.ended = "none" THEN "none" ELSE AnalysisOutcome(st.isScrolling)

\* startAnalysis returns before it detects: lines 843-868
StartRefused ==
  /\ isScrolling' = FALSE
  /\ isProcessing' = FALSE
  /\ last' = Quiet("start")
  /\ UNCHANGED <<scrollCount, stabilityCounter, videoCache, imageCache, loops>>

\* startAnalysis from its initial detection d (line 874) to the await of line 882,
\* st being the first scrollStep of infiniteScroll (lines 918-1033)
StartLoop(choice, d, st) ==
  /\ videoCache' = d.videoCache
  /\ imageCache' = d.imageCache
  /\ scrollCount' = st.scrollCount
  /\ stabilityCounter' = 0
  /\ IF st.ended = "none"
       THEN /\ loops' = Append(loops, st.loop)
            /\ isProcessing' = TRUE
            /\ isScrolling' = TRUE
       ELSE /\ loops' = loops
            /\ isProcessing' = FALSE
            /\ isScrolling' = FALSE
  /\ last' = [Quiet("start") EXCEPT
                !.scrolled = st.scrolled, !.detected = TRUE,
                !.newVideos = d.newVideos, !.newImages = d.newImages,
                !.ended = st.ended, !.outcome = Ending(st), !.choice = choice]

\* start(): lines 665-668, and the task of startAnalysis (842-912) it begins
StartTask(choice, scrollOk) ==
  /\ isAnalyzing' = TRUE
  /\ IF isProcessing \/ ~onTwitter
       THEN StartRefused
       ELSE \E d \in {detectMedia(videoCache, imageCache, Containers(choice), scrollCount,
                                  dateNow)} :
              \E st \in {scrollStep(TRUE, 0, NewLoop(config), Len(d.videoCache),
                                    Len(d.imageCache), scrollOk, config)} :
                StartLoop(choice, d, st)
  /\ UNCHANGED <<config, onTwitter, lastMediaDiscoveryScroll, dateNow>>

\* a start command, and with it the fault of its scroll, counted as outside events
Start(choice, scrollOk) ==
  /\ Spend(IF scrollOk THEN 1 ELSE 2)
  /\ StartTask(choice, scrollOk)

\* stop(): lines 673-678
Stop ==
  /\ isAnalyzing' = FALSE
  /\ isScrolling' = FALSE
  /\ isProcessing' = FALSE
  /\ last' = Quiet("stop")
  /\ UNCHANGED <<config, onTwitter, scrollCount, stabilityCounter, lastMediaDiscoveryScroll,
                 videoCache, imageCache, loops, dateNow>>
  /\ Spend(1)


\* the end of a timer callback that called scrollStep: the timer it set, or the
\* promise it resolved and the rest of startAnalysis (lines 885-911) behind it
AfterScrollStep(k, st) ==
  /\ scrollCount' = st.scrollCount
  /\ IF st.ended = "none"
       THEN /\ loops' = [loops EXCEPT ![k] = st.loop]
            /\ isScrolling' = st.isScrolling
            /\ isProcessing' = isProcessing
       ELSE /\ loops' = RemoveAt(loops, k)
            /\ isScrolling' = FALSE
            /\ isProcessing' = FALSE

\* what a timer callback that detected d records
Seen(choice, d) ==
  [Quiet("timer") EXCEPT !.detected = TRUE, !.newVideos = d.newVideos,
                         !.newImages = d.newImages, !.choice = choice]

\* lines 1018-1022: the try block threw once detectMedia had returned d
TimerCaught(k, choice, d, scrollOk) ==
  /\ videoCache' = d.videoCache
  /\ imageCache' = d.imageCache
  /\ UNCHANGED <<stabilityCounter, lastMediaDiscoveryScroll>>
  /\ \E st \in {scrollStep(isScrolling, scrollCount, loops[k], Len(d.videoCache),
                           Len(d.imageCache), scrollOk, config)} :
       /\ AfterScrollStep(k, st)
       /\ last' = [Seen(choice, d) EXCEPT !.error = TRUE, !.scrolled = st.scrolled,
                                          !.ended = st.ended, !.outcome = Ending(st)]

\* lines 1007-1011: the content has stabilized, the promise of the loop is resolved
TimerStabilized(k, choice, d) ==
  /\ videoCache' = d.videoCache
  /\ imageCache' = d.imageCache
  /\ scrollCount' = scrollCount
  /\ loops' = RemoveAt(loops, k)
  /\ isScrolling' = FALSE
  /\ isProcessing' = FALSE
  /\ last' = [Seen(choice, d) EXCEPT !.ended = "stability",
                                     !.outcome = AnalysisOutcome(FALSE)]

\* lines 1013-1017: checkCacheSize and the next scrollStep
TimerContinues(k, choice, d, scrollOk) ==
  \E ev \in checkCacheSize(d.videoCache, d.imageCache, config.maxCacheSize) :
    \E st \in {scrollStep(isScrolling, scrollCount, loops[k], Len(ev.videoCache),
                          Len(ev.imageCache), scrollOk, config)} :
      /\ videoCache' = ev.videoCache
      /\ imageCache' = ev.imageCache
      /\ AfterScrollStep(k, st)
      /\ last' = [Seen(choice, d) EXCEPT !.scrolled = st.scrolled, !.ended = st.ended,
                                         !.outcome = Ending(st)]

\* lines 975-1017: the pass that detected d, newMediaFound being the growth of the
\* caches since the sizes read before the scroll
TimerPass(k, choice, d, scrollOk, newMediaFound) ==
  /\ stabilityCounter' = IF newMediaFound > 0 THEN 0 ELSE stabilityCounter + 1
  /\ lastMediaDiscoveryScroll' =
       IF newMediaFound > 0 THEN scrollCount ELSE lastMediaDiscoveryScroll
  /\ IF ContentStabilized(stabilityCounter', config)
       THEN TimerStabilized(k, choice, d)
       ELSE TimerContinues(k, choice, d, scrollOk)

\* the setTimeout callback of loop k, lines 971-1023, and the scrollStep it calls.
\* detectionError: the try block throws once detectMedia has returned.
TimerTask(k, choice, scrollOk, detectionError) ==
  /\ k \in 1..Len(loops)
  /\ \E d \in {detectMedia(videoCache, imageCache, Containers(choice), scrollCount, dateNow)} :
       IF detectionError
         THEN TimerCaught(k, choice, d, scrollOk)
         ELSE TimerPass(k, choice, d, scrollOk,
                        (Len(d.videoCache) - loops[k].videosCountBefore)
                        + (Len(d.imageCache) - loops[k].imagesCountBefore))
  /\ UNCHANGED <<config, onTwitter, isAnalyzing, dateNow>>

\* a timer callback, its faults counted as outside events
Timer(k, choice, scrollOk, detectionError) ==
  /\ Spend((IF scrollOk THEN 0 ELSE 1) + (IF detectionError THEN 1 ELSE 0))
  /\ TimerTask(k, choice, scrollOk, detectionError)

\* importJsonData(jsonInput, replace) for a JSON text that parses to payload,
\* lines 2907-2993
ImportRejected(payload, replace) ==
  /\ last' = [Quiet("import") EXCEPT !.error = TRUE, !.payload = payload,
                                      !.replace = replace]
  /\ UNCHANGED <<videoCache, imageCache, scrollCount>>

\* lines 2931-2993 with the outcomes v and i of the two loops: the statistics are
\* reached when neither loop threw
ImportLoops(payload, replace, v, i) ==
  /\ videoCache' = v.cache
  /\ imageCache' = i.cache
  /\ scrollCount' = IF payload.stats.present /\ replace /\ ~i.threw
                      THEN payload.stats.scrollCount ELSE scrollCount
  /\ last' = [Quiet("import") EXCEPT !.error = i.threw, !.payload = payload,
                                      !.replace = replace,
                                      !.result = [videosAdded |-> v.added,
                                                  imagesAdded |-> i.added,
                                                  videosSkipped |-> v.skipped,
                                                  imagesSkipped |-> i.skipped]]

Import(payload, replace) ==
  /\ Spend(1)
  /\ IF importRejects(payload)
       THEN ImportRejected(payload, replace)
       ELSE \E v \in {importRecords(importStartCache(videoCache, replace), payload.videos,
                                    replace, dateNow)} :
              \E i \in {importImages(v, importStartCache(imageCache, replace),
                                     payload.images, replace, dateNow)} :
                ImportLoops(payload, replace, v, i)
  /\ UNCHANGED <<config, onTwitter, isAnalyzing, isProcessing, isScrolling, stabilityCounter,
                 lastMediaDiscoveryScroll, loops, dateNow>>

\* the texts given to parseEngagementCount: those of TextLen characters at most
\* over "1", "5", ".", ",", "K", "m", and some with a digit 2, 4 or a letter B
CountTexts ==
  UNION {[1..n -> {49, 53, 46, 44, 75, 109}] : n \in 0..TextLen}
    \cup {<<49, 46, 53, 75>>, <<50, 77>>, <<52, 50>>, <<49, 66>>, <<50, 98>>, <<66>>,
          <<46, 53, 66>>, <<49, 46, 53, 98>>}

\* the text of an engagement element is parsed by the analyzer (line 1669) and,
\* on the test page, by BMS.Utils (the click handler of the parse button)
Parse(text) ==
  /\ last' = [Quiet("parse") EXCEPT !.text = text, !.count = parseEngagementCount(text),
                                    !.utilsCount = UtilsParseEngagementCount(text)]
  /\ UNCHANGED <<config, onTwitter, isAnalyzing, isProcessing, isScrolling, scrollCount,
                 stabilityCounter, lastMediaDiscoveryScroll, videoCache, imageCache, loops,
                 dateNow, events>>

\* the clock advances between two tasks
Tick ==
  /\ dateNow < MaxNow
  /\ dateNow' = dateNow + 1
  /\ last' = Quiet("tick")
  /\ UNCHANGED <<config, onTwitter, isAnalyzing, isProcessing, isScrolling, scrollCount,
                 stabilityCounter, lastMediaDiscoveryScroll, videoCache, imageCache, loops>>
  /\ UNCHANGED events

StartCommand == \E choice \in ContainerChoices, scrollOk \in BOOLEAN : Start(choice, scrollOk)

TimerFires ==
  \E k \in 1..Len(loops), choice \in ContainerChoices, scrollOk \in BOOLEAN,
     detectionError \in BOOLEAN : Timer(k, choice, scrollOk, detectionError)

ImportCommand == \E payload \in Payloads, replace \in BOOLEAN : Import(payload, replace)

Next ==
  \/ StartCommand
  \/ Stop
  \/ TimerFires
  \/ ImportCommand
  \/ Tick

Spec == Init /\ [][Next]_vars

\* the analyzer while nothing is imported
NextDetect ==
  \/ StartCommand
  \/ Stop
  \/ TimerFires
  \/ Tick

SpecDetect == Init /\ [][NextDetect]_vars

\* a pending setTimeout callback is run in the end
FairSpec == SpecDetect /\ WF_vars(TimerFires)

\* The analyzer started once and left alone on a page where window.scrollBy can
\* throw any number of times: its scroll faults are not counted as outside events.
StartAlone ==
  /\ ~isAnalyzing
  /\ \E choice \in ContainerChoices, scrollOk \in BOOLEAN :
       StartTask(choice, scrollOk) /\ UNCHANGED events

TimerAlone ==
  \E k \in 1..Len(loops), choice \in ContainerChoices, scrollOk \in BOOLEAN :
    TimerTask(k, choice, scrollOk, FALSE) /\ UNCHANGED events

NextAlone ==
  \/ StartAlone
  \/ TimerAlone

SpecAlone == Init /\ [][NextAlone]_vars

\* the same, a pending setTimeout callback being run in the end
FairAlone == SpecAlone /\ WF_vars(TimerAlone)

\* The analyzer started once, with a scroll that works, on pages where reading
\* some candidates throws.
StartOnPage ==
  /\ ~isAnalyzing
  /\ \E choice \in PageChoices : StartTask(choice, TRUE) /\ UNCHANGED events

TimerOnPage ==
  \E k \in 1..Len(loops), choice \in PageChoices :
    TimerTask(k, choice, TRUE, FALSE) /\ UNCHANGED events

NextOnPage ==
  \/ StartOnPage
  \/ TimerOnPage

SpecOnPage == Init /\ [][NextOnPage]_vars

\* the scrollDelay given to the constructor: the default, or one above 10 s
ScrollDelays == {5500, 12000}

\* the state after new EnhancedTwitterMediaAnalyzer({scrollDelay: d})
InitConfigured ==
  /\ config \in {[maxCacheSize |-> CfgMaxCacheSize, maxScrollAttempts |-> CfgMaxScrollAttempts,
                   stabilityThreshold |-> CfgStabilityThreshold, scrollDelay |-> d] :
                    d \in ScrollDelays}
  /\ onTwitter \in BOOLEAN
  /\ isAnalyzing = FALSE
  /\ isProcessing = FALSE
  /\ isScrolling = FALSE
  /\ scrollCount = 0
  /\ stabilityCounter = 0
  /\ lastMediaDiscoveryScroll = 0
  /\ videoCache = <<>>
  /\ imageCache = <<>>
  /\ loops = <<>>
  /\ dateNow = 0
  /\ last = Quiet("init")
  /\ events = 0

\* the configured analyzer started once and left alone, scroll faults free
SpecConfigured == InitConfigured /\ [][NextAlone]_vars

\* The analyzer started once on a feed that no longer changes: every pass
\* enumerates the page that the pass before it enumerated.
StableTimer ==
  \E k \in 1..Len(loops) : TimerTask(k, last.choice, TRUE, FALSE) /\ UNCHANGED events

NextStable ==
  \/ StartOnPage
  \/ StableTimer

SpecStable == Init /\ [][NextStable]_vars

\* The analyzer started once on a feed of videos without a <video src>.
ExtractStart ==
  /\ ~isAnalyzing
  /\ \E choice \in ExtractChoices : StartTask(choice, TRUE) /\ UNCHANGED events

ExtractTimer ==
  \E k \in 1..Len(loops), choice \in ExtractChoices :
    TimerTask(k, choice, TRUE, FALSE) /\ UNCHANGED events

NextExtract ==
  \/ ExtractStart
  \/ ExtractTimer

SpecExtract == Init /\ [][NextExtract]_vars

\* Runs started, stopped and started again on a feed that shows two images, with
\* scrolls that work and passes that do not throw.
RunStart == \E choice \in RunChoices : Start(choice, TRUE)

RunTimer == \E k \in 1..Len(loops), choice \in RunChoices : Timer(k, choice, TRUE, FALSE)

NextRuns ==
  \/ RunStart
  \/ Stop
  \/ RunTimer

SpecRuns == Init /\ [][NextRuns]_vars

\* the parsers of engagement counts, given one text after another
ParseCommand == \E text \in CountTexts : Parse(text)

SpecParse == Init /\ [][ParseCommand]_vars

-----------------------------------------------------------------------------
(* Properties *)

\* no two records of the cache have the same id or the same url
KeysUnique(cache) ==
  \A i, j \in 1..Len(cache) :
    i # j => cache[i].id # cache[j].id /\ cache[i].url # cache[j].url

\* C1: in every state reached by detection passes and evictions, neither the video
\* cache nor the image cache holds two records with the same id or the same url.
C1_CachesHoldNoDuplicate == KeysUnique(videoCache) /\ KeysUnique(imageCache)

\* the video cache holds a record with the url of candidate c under another id
HeldUnderAnotherId(c) == \E r \in Range(videoCache) : r.url = c.url /\ r.id # c.id

\* C1 witness: the last pass looked at a container whose video is in the cache with
\* the same url and a different id, and inserted no video.
C1_SameUrlOtherIdRefused ==
  /\ last.detected
  /\ last.choice # <<>>
  /\ last.newVideos = 0
  /\ HeldUnderAnotherId(VideoCandidateOf(Pool[last.choice[1]], dateNow))

\* the second of two extractions of the video of el adds nothing to what the first left
SecondVideoRefused(first, el, count, now) ==
  extractVideoData(first.cache, el, count, now) = [cache |-> first.cache, n |-> 0]

SecondImagesRefused(first, el, count, now) ==
  extractImageData(first.cache, el, count, now) = [cache |-> first.cache, n |-> 0]

\* the first of two extractions changed the size by what it reports, at most 1 a record
GrewBy(cache, first, most) == Len(first.cache) = Len(cache) + first.n /\ first.n <= most

\* C2: from any reachable cache, extracting the same container a second time, at the
\* same or at a later time (so under another fingerprint), is rejected: it reports 0
\* and leaves the cache as the first extraction left it, so that both extractions
\* together change the size by what the first inserted, 1 for a video.
C2_SecondInsertRejected ==
  \A el \in Range(Pool), now \in Times, later \in Times :
    later >= now =>
      /\ GrewBy(videoCache, extractVideoData(videoCache, el, scrollCount, now), 1)
      /\ SecondVideoRefused(extractVideoData(videoCache, el, scrollCount, now), el,
                            scrollCount, later)
      /\ GrewBy(imageCache, extractImageData(imageCache, el, scrollCount, now),
                Len(el.images))
      /\ SecondImagesRefused(extractImageData(imageCache, el, scrollCount, now), el,
                             scrollCount, later)

\* C2 witness: a pass at time 1 extracted the first container of the feed again, whose
\* video and image had been inserted at time 0, and inserted nothing.
C2_RepeatedAtLaterTime ==
  /\ last.detected
  /\ last.choice = <<1>>
  /\ last.newVideos = 0 /\ last.newImages = 0
  /\ dateNow = 1
  /\ MapHas(videoCache, VideoCandidateOf(Pool[1], 0).id)
  /\ MapHas(imageCache, ImageCandidateOf(Pool[1], 2, 0).id)

\* C3: at most one scroll loop is alive: there is never more than one pending cadence
\* wait of scrollStep, so that detectMedia is never invoked by two loops.
C3_AtMostOneLoopAlive == Len(loops) <= 1

\* C4: a pass of the loop that does not throw ends the loop by the stability rule
\* exactly when its update brings stabilityCounter to stabilityThreshold or beyond, not
\* on an earlier pass; that pass ends the loop without advancing the viewport, and no
\* task advances the viewport while the counter stays at the threshold.
C4_StabilityTermination ==
  [][/\ (last'.act = "timer" /\ ~last'.error) =>
          (last'.ended = "stability" <=> stabilityCounter' >= config.stabilityThreshold)
     /\ last'.ended = "stability" =>
          /\ ~last'.scrolled
          /\ ~isScrolling'
          /\ Len(loops') = Len(loops) - 1
     /\ last'.scrolled => stabilityCounter' < config.stabilityThreshold]_vars

\* C4 witness: a pass that found nothing has brought the counter to the threshold and
\* ended the loop by the stability rule.
C4_LoopEndedOnStability ==
  /\ last.act = "timer"
  /\ last.ended = "stability"
  /\ last.newVideos + last.newImages = 0
  /\ stabilityCounter = config.stabilityThreshold

\* C5: no pass of the loop runs detectMedia while scrollCount > maxScrollAttempts, and
\* no pass advances the viewport once scrollCount >= maxScrollAttempts.
C5_AttemptCeiling ==
  [][/\ (last'.act = "timer" /\ last'.detected) => scrollCount <= config.maxScrollAttempts
     /\ (last'.act = "timer" /\ last'.scrolled) => scrollCount < config.maxScrollAttempts]_vars

\* the records of cache are the first records of after, in the same order
KeptIn(cache, after) ==
  Len(cache) <= Len(after) /\ SubSeq(after, 1, Len(cache)) = cache

\* C6: a start command that follows a stop command and re-enters the loop keeps
\* scrollCount (up to the one scroll of the step itself), stabilityCounter and the records
\* of both caches as they were at the moment of the stop.
C6_PauseIsResumable ==
  [][(last.act = "stop" /\ last'.act = "start" /\ isProcessing') =>
       /\ scrollCount' \in {scrollCount, scrollCount + 1}
       /\ stabilityCounter' = stabilityCounter
       /\ KeptIn(videoCache, videoCache')
       /\ KeptIn(imageCache, imageCache')]_vars

\* C7: a stop command clears isScrolling and leaves the pending passes, the caches and
\* the counters alone; every pending pass still runs detectMedia; a pass that finds
\* isScrolling cleared does not advance the viewport and ends its loop as paused; and
\* when timers are run, a stopped analyzer with pending passes gets rid of them unless
\* a start command comes first.
C7_CooperativeCancellation ==
  /\ [][/\ last'.act = "stop" =>
              /\ ~isScrolling'
              /\ UNCHANGED <<loops, videoCache, imageCache, scrollCount, stabilityCounter>>
        /\ last'.act = "timer" => last'.detected
        /\ (last'.act = "timer" /\ ~isScrolling) =>
              /\ ~last'.scrolled
              /\ last'.outcome = "paused"
              /\ Len(loops') = Len(loops) - 1]_vars
  /\ (~isScrolling /\ loops # <<>>) ~> (loops = <<>> \/ isScrolling)

\* C7 witness: the pass that was pending at the stop command has inserted records and
\* then ended the loop on the stop, without a scroll.
C7_PendingPassCompleted ==
  /\ last.act = "timer"
  /\ last.ended = "stopped"
  /\ last.outcome = "paused"
  /\ last.newVideos + last.newImages > 0
  /\ ~last.scrolled
  /\ loops = <<>>

\* a > b in JavaScript, false when either side is NaN
LongerThan(a, b) == a # NaN /\ b # NaN /\ a > b

\* after is what is left of before once it is trimmed to the size maxSize
TrimmedTo(before, after, maxSize) ==
  /\ Len(after) = Min(Len(before), maxSize)
  /\ Range(after) \subseteq Range(before)
  /\ Len(before) <= maxSize => after = before

\* no record of before that is missing in after is longer than one that is in after
LongestRetained(before, after) ==
  \A evicted \in Range(before) \ Range(after), retained \in Range(after) :
    ~LongerThan(evicted.durationSeconds, retained.durationSeconds)

\* the caches v and i are the caches d of a detection after a correct eviction
EvictedFrom(d, v, i, maxSize) ==
  /\ TrimmedTo(d.videoCache, v, maxSize)
  /\ TrimmedTo(d.imageCache, i, maxSize)
  /\ LongestRetained(d.videoCache, v)

\* C8: the eviction of a pass (checkCacheSize on the caches its detection left) leaves
\* min(size, maxCacheSize) records in each cache, removes nothing from a cache within
\* the limit, and evicts no video that is strictly longer than a retained one.
C8_EvictionKeepsLongest ==
  [][(last'.act = "timer" /\ ~last'.error /\ last'.ended # "stability") =>
       EvictedFrom(detectMedia(videoCache, imageCache, Containers(last'.choice),
                               scrollCount, dateNow),
                   videoCache', imageCache', config.maxCacheSize)]_vars

\* no two records of the cache have the same url
UrlsUnique(cache) ==
  \A i, j \in 1..Len(cache) : i # j => cache[i].url # cache[j].url

\* C9: after a Merge import no cache holds two records with equal url.
C9_MergeKeepsUrlsUnique ==
  (last.act = "import" /\ ~last.replace /\ ~last.error) =>
    UrlsUnique(videoCache) /\ UrlsUnique(imageCache)

IdsOf(records) == {r.id : r \in Range(records)}

\* the ids of the records of a payload, a missing id being the one computed for it
PayloadIds(records, now) ==
  {IF Falsy(r.id) THEN generateUniqueId(OrEmpty(r.url), OrEmpty(r.fullUrl), now) ELSE r.id :
     r \in Range(records)}

SnapshotMatches(snapshot, payload, now) ==
  /\ IdsOf(snapshot.videos) = PayloadIds(payload.videos, now)
  /\ IdsOf(snapshot.images) = PayloadIds(payload.images, now)

\* C10: right after a Replace import of an accepted payload, the videos and the images
\* of exportDataAsJson() have exactly the ids of the payload's videos and images (the
\* id computed at the import for a record that came without one).
C10_ReplaceThenExport ==
  (last.act = "import" /\ last.replace /\ ~last.error) =>
    SnapshotMatches(exportDataAsJson(videoCache, imageCache, scrollCount), last.payload,
                    dateNow)

\* C10 witness: a payload of one video has replaced caches that held detected media:
\* the pending pass had counted videos and images before its scroll, and the snapshot
\* has the video of the payload and no image.
C10_ReplacedDetectedMedia ==
  /\ last.act = "import" /\ last.replace /\ ~last.error
  /\ loops # <<>>
  /\ loops[1].videosCountBefore > 0 /\ loops[1].imagesCountBefore > 0
  /\ IdsOf(videoCache) = {IdY}
  /\ imageCache = <<>>

LosesRecord(cache, after) == Range(cache) \ Range(after) # {}

\* records are missing only behind a pass that did not throw and trimmed to the limit
OnlyEvicted(cache, after, act, error, maxSize) ==
  LosesRecord(cache, after) => act = "timer" /\ ~error /\ Len(after) = maxSize

\* C12: no start, stop or pass of the loop, whether its scroll or its detection
\* failed or not, and no import that fails, removes a record from a cache, except
\* the eviction of a pass that trims the cache to maxCacheSize.
C12_NoErrorLosesRecords ==
  [][(last'.act \in {"start", "stop", "timer"} \/ last'.error) =>
       /\ OnlyEvicted(videoCache, videoCache', last'.act, last'.error, config.maxCacheSize)
       /\ OnlyEvicted(imageCache, imageCache', last'.act, last'.error,
                      config.maxCacheSize)]_vars

\* C13: a Merge import, whether it ends or throws, leaves every record that was in a
\* cache in its place and unmodified, so that no cache gets smaller.
C13_MergeKeepsRecords ==
  [][(last'.act = "import" /\ ~last'.replace) =>
       /\ KeptIn(videoCache, videoCache')
       /\ KeptIn(imageCache, imageCache')]_vars

\* r is cached under an id that records of the sequence carry with other contents
KeptAgainst(r, records) ==
  /\ \E k \in 1..Len(records) : records[k].id = r.id
  /\ \A k \in 1..Len(records) : records[k] # r

\* C13 witness: a Merge import has met a cached video under the id of payload records
\* with other contents, and the cached one is still there.
C13_MergeMetCachedId ==
  /\ last.act = "import" /\ ~last.replace /\ ~last.error
  /\ \E r \in Range(videoCache) : KeptAgainst(r, last.payload.videos)

\* the consecutive scroll errors the one loop has counted, 0 when there is no loop
ErrorsCounted(ls) == IF ls = <<>> THEN 0 ELSE ls[1].consecutiveErrors

\* C14: for the one loop of an analyzer left alone: a scroll that succeeds resets the
\* count of consecutive scroll errors to 0; a scroll that fails after fewer than 4
\* consecutive failures adds 1 to it and the loop goes on; the loop ends as failed
\* exactly on the failure that follows 4 consecutive ones, with no pass pending.
C14_FiveScrollFailures ==
  [][/\ last'.scrolled => loops' # <<>> /\ ErrorsCounted(loops') = 0
     /\ (last'.detected /\ ~last'.scrolled /\ last'.ended = "none") =>
          /\ loops' # <<>>
          /\ ErrorsCounted(loops') = ErrorsCounted(loops) + 1
          /\ ErrorsCounted(loops') < 5
     /\ last'.ended = "failed" =>
          /\ ErrorsCounted(loops) = 4
          /\ ~last'.scrolled
          /\ loops' = <<>>
          /\ ~isScrolling']_vars

\* C14 witness: the loop has ended as failed after a scroll had succeeded, so that the
\* five failures were counted from a reset.
C14_FailedAfterReset ==
  /\ last.ended = "failed"
  /\ scrollCount > 0
  /\ loops = <<>>

\* the candidates of a container that are read without a throw
RECURSIVE ReadableFrom(_, _)
ReadableFrom(el, k) ==
  IF k > Len(el.images) THEN <<>>
  ELSE (IF k \in el.thrown.images THEN <<>> ELSE <<el.images[k]>>) \o ReadableFrom(el, k + 1)

Readable(el) ==
  [el EXCEPT !.images = ReadableFrom(el, 1), !.hasVideo = el.hasVideo /\ ~el.thrown.video,
             !.thrown = NoThrow]

Throws(el) == el.thrown # NoThrow

\* the caches v and i are those of the detection d, once trimmed where the pass trims
LeftBy(d, v, i, trims, maxSize) ==
  [videoCache |-> v, imageCache |-> i] \in
    (IF trims THEN checkCacheSize(d.videoCache, d.imageCache, maxSize)
              ELSE {[videoCache |-> d.videoCache, imageCache |-> d.imageCache]})

\* C15: a pass over a page where reading some candidates throws leaves the caches,
\* and returns the counts, that the pass over the other candidates of the page
\* alone leaves and returns: every remaining candidate is processed and its record
\* inserted, and the throw does not reach the caller of detectMedia.
C15_ThrowingCandidateIsolated ==
  [][last'.detected =>
       \E page \in {Containers(last'.choice)} :
         \E d \in {detectMedia(videoCache, imageCache, [k \in 1..Len(page) |-> Readable(page[k])],
                                scrollCount, dateNow)} :
           /\ LeftBy(d, videoCache', imageCache', last'.act = "timer" /\ last'.ended # "stability",
                     config.maxCacheSize)
           /\ last'.newVideos = d.newVideos
           /\ last'.newImages = d.newImages
           /\ ~last'.error]_vars

\* a pass met a throwing candidate first and inserted the records of later ones
C15_InsertedAfterThrow ==
  /\ last.detected
  /\ Len(last.choice) = 2
  /\ Throws(Containers(last.choice)[1])
  /\ last.newVideos > 0
  /\ last.newImages > 0

\* C16: convertDurationToSeconds gives a non-negative integer number of seconds
\* for every text: the durationSeconds of every video record, which the extractor
\* computes from the duration label of the tweet, is a natural number (0 for a label
\* that does not parse, such as "1:bad").
C16_DurationIsNatural ==
  \A k \in 1..Len(videoCache) : videoCache[k].durationSeconds \in Nat

\* the text is made of digits only, and of one at least
AllDigits(text) == text # <<>> /\ \A k \in 1..Len(text) : IsDigit(text[k])

\* the factor that a suffix letter stands for, in either case
SuffixFactor(c) ==
  IF c \in {75, 107} THEN 1000
  ELSE IF c \in {77, 109} THEN 1000000
  ELSE IF c \in {66, 98} THEN 1000000000
  ELSE 0

\* what the claim says of the text: nothing (-1) unless the text is empty, holds no
\* digit, is a bare integer, or is an integer followed by one suffix letter
ExpectedCount(text) ==
  IF \A k \in 1..Len(text) : ~IsDigit(text[k]) THEN 0
  ELSE IF AllDigits(text) THEN DigitsValue(text)
  ELSE IF AllDigits(SubSeq(text, 1, Len(text) - 1)) /\ SuffixFactor(text[Len(text)]) > 0
    THEN DigitsValue(SubSeq(text, 1, Len(text) - 1)) * SuffixFactor(text[Len(text)])
  ELSE -1

C18_ExhaustedRunCompletes ==
  last.ended \in {"stability", "max"} => last.outcome = "complete"

\* C19: once a pass of the scroll loop is over, be it the last of the run or one
\* that raised an error, eviction has been applied: each cache holds at most
\* maxCacheSize records.
C19_EvictedAfterEachPass ==
  last.act = "timer" =>
    /\ Len(videoCache) <= config.maxCacheSize
    /\ Len(imageCache) <= config.maxCacheSize

\* C20: after each pass, when the pass inserted a record stabilityCounter is 0 and
\* lastMediaDiscoveryScroll is the scroll count of the pass; when it inserted none
\* stabilityCounter has grown by exactly 1 and lastMediaDiscoveryScroll is unchanged.
C20_StabilityUpdate ==
  [][(last'.act = "timer" /\ last'.detected) =>
       IF last'.newVideos + last'.newImages > 0
         THEN stabilityCounter' = 0 /\ lastMediaDiscoveryScroll' = scrollCount
         ELSE /\ stabilityCounter' = stabilityCounter + 1
              /\ lastMediaDiscoveryScroll' = lastMediaDiscoveryScroll]_vars

\* C21: the running indicator is true exactly while a run is in progress: isAnalyzing,
\* which the Start/Stop control consults, is false once the run has ended by stop,
\* by exhaustion or by an error, and true while the scroll loop of a run is active.
C21_RunningIndicator ==
  isAnalyzing <=> isProcessing

\* C22: scrollCount equals the number of detections the run has completed at every
\* point of the run: from one wait of the loop to the next, between which the timer
\* callback completes exactly one detectMedia, scrollCount grows by exactly 1, also
\* when the viewport advance of the step fails.
C22_OneIncrementPerPass ==
  [][(last'.act = "timer" /\ last'.detected /\ last'.ended = "none") =>
       scrollCount' = scrollCount + 1]_vars

\* C23: lastMediaDiscoveryScroll is the scroll count of a pass of the past: it is at
\* most scrollCount in every reachable state, also after stop and start, after a new
\* run and after an import.
C23_DiscoveryNotAhead ==
  lastMediaDiscoveryScroll <= scrollCount

\* C24: image eviction is keep-newest: when the eviction of a pass trims the image
\* cache, no image that this pass inserted is evicted while an image that an earlier
\* pass inserted is retained, whatever runs came before.
C24_KeepNewestImages ==
  [][(last'.act = "timer" /\ ~last'.error /\ last'.ended # "stability") =>
       \E d \in {detectMedia(videoCache, imageCache, Containers(last'.choice),
                             scrollCount, dateNow)} :
         \A old \in Range(imageCache), new \in Range(d.imageCache) \ Range(imageCache) :
           ~(old \in Range(imageCache') /\ new \notin Range(imageCache'))]_vars

\* C25: for every configured scrollDelay, the delay a loop waits with is never
\* smaller than scrollDelay and never larger than the ceiling of 10000 ms.
C25_DelayWithinBounds ==
  \A k \in 1..Len(loops) :
    /\ loops[k].currentDelay >= ScaledMs(config.scrollDelay)
    /\ loops[k].currentDelay <= ScaledMs(10000)

\* the first of the urls that is not empty, Null when all are
RECURSIVE FirstUrl(_)
FirstUrl(urls) ==
  IF urls = <<>> THEN Null
  ELSE IF ~Falsy(Head(urls)) THEN Head(urls)
  ELSE FirstUrl(Tail(urls))

\* the primary URL by priority: element source, <source> children, data attribute,
\* background-image transform, the other elements, and the tweet URL at last
PrimaryUrl(el) ==
  FirstUrl((IF el.video.hasEl
              THEN <<el.video.elSrc>> \o el.video.sources \o <<el.video.dataAttr>>
              ELSE <<>>)
           \o <<IF Falsy(el.video.bgImage) THEN Null
                ELSE ThumbToVideoUrl(UrlInner(el.video.bgImage))>>
           \o el.video.others
           \o <<buildFullUrl(el.tweetUrl)>>)

\* C26: the url of every video record that a pass inserts is the first non-empty
\* URL, in priority order, of a tweet of the page: no later step replaces or clears
\* the URL of an earlier one, and the tweet URL is used only when all gave nothing.
C26_FirstSuccessWins ==
  [][last'.detected =>
       \E page \in {Containers(last'.choice)} :
         \A k \in 1..Len(videoCache') :
           \/ \E j \in 1..Len(videoCache) : videoCache[j] = videoCache'[k]
           \/ \E n \in 1..Len(page) : videoCache'[k].url = PrimaryUrl(page[n])]_vars

\* C27: on a feed whose enumerated candidates no longer change, the run ends through
\* the stability rule (within stabilityThreshold passes, before the attempt ceiling),
\* also when eviction has removed records whose candidates are still enumerated.
C27_StableFeedStabilizes ==
  last.ended \in {"none", "stability"}

\* C28: under fair scheduling of the timers every run ends, whatever the outcomes of
\* its scrolls: a run in progress leads to no run in progress, and a run never makes
\* more than maxScrollAttempts successful scrolls.
C28_RunTerminates ==
  /\ [](scrollCount <= config.maxScrollAttempts)
  /\ (isProcessing ~> ~isProcessing)

\* a run ended on the attempt ceiling while its passes still found new media
C28_EndedWhileDiscovering ==
  /\ last.act = "timer"
  /\ last.ended = "max"
  /\ ~isProcessing
  /\ scrollCount = config.maxScrollAttempts
  /\ stabilityCounter = 0
  /\ last.newVideos > 0

\* C29: the stability update of a pass that does not throw goes by the records that
\* the pass's detectMedia inserted: stabilityCounter is reset when it inserted one
\* at least and only then, whatever was imported while the loop was waiting.
C29_UpdateCountsInsertedRecords ==
  [][(last'.act = "timer" /\ last'.detected /\ ~last'.error) =>
       ((stabilityCounter' = 0) <=> (last'.newVideos + last'.newImages > 0))]_vars

\* C30: the counts that importJsonData returns match the change of the caches: without
\* replace the added count of each kind is the growth of that cache and added plus
\* skipped is the number of incoming records; with replace the added count of each
\* kind is the size of that cache after the import.
C30_ImportCountsMatch ==
  [][(last'.act = "import" /\ ~last'.error) =>
       /\ last'.result.videosAdded =
            Len(videoCache') - (IF last'.replace THEN 0 ELSE Len(videoCache))
       /\ last'.result.imagesAdded =
            Len(imageCache') - (IF last'.replace THEN 0 ELSE Len(imageCache))
       /\ last'.result.videosAdded + last'.result.videosSkipped = Len(last'.payload.videos)
       /\ last'.result.imagesAdded + last'.result.imagesSkipped = Len(last'.payload.images)]_vars

====
